---- MODULE Spec2Model ----
(***************************************************************************)
(* ThreadGram scraper (src/scraper.py): the Collector loop of              *)
(* scrape_threads, and the Grouper (group_images, dedupe_sizes).           *)
(* URLs are sequences of one-character strings so that the two regular     *)
(* expressions and the substring tests are computed, not assumed.          *)
(***************************************************************************)
EXTENDS Integers, Sequences, FiniteSets, TLC

VARIABLES pc, max_scrolls, i, all_images, last_count, no_new_count,
          session, exc, file, prior_file, result, sizes, scrolls, broke,
          images, idx, groups, posts, urls, out, out2

vars == <<pc, max_scrolls, i, all_images, last_count, no_new_count,
          session, exc, file, prior_file, result, sizes, scrolls, broke,
          images, idx, groups, posts, urls, out, out2>>

\* ---------------------------------------------------------------- bounds
MaxLen == 4        \* longest list handed to dedupe_sizes
MaxImages == 3     \* longest list handed to group_images
MaxBudget == 7     \* largest scroll budget

\* ------------------------------------------------------------- constants
StagnationLimit == 5
PostIdLen == 9

\* ------------------------------------------------------- character data
Digits == {"0", "1", "2", "3", "4", "5", "6", "7", "8", "9"}

IsDigit(c) == c \in Digits

Cdn == <<"c","d","n","i","n","s","t","a","g","r","a","m",".","c","o","m">>
S150 == <<"s","1","5","0","x","1","5","0">>
S320 == <<"s","3","2","0","x","3","2","0">>
S640 == <<"s","6","4","0","x","6","4","0">>
S64 == <<"s","6","4","x","6","4">>
S32 == <<"s","3","2","x","3","2">>
Jpg == <<".","j","p","g">>
Pfx == Cdn \o <<"/">>
Alt == <<"x",".">> \o Pfx
N9a == <<"1","2","3","4","5","6","7","8","9">>
N9b == <<"9","8","7","6","5","4","3","2","1">>

\* the three URLs of the end-to-end example (two numeric runs before _n)
E1 == Pfx \o <<"1","1","1","_">> \o N9a \o <<"_","n">> \o Jpg
E2 == Pfx \o <<"1","1","1","_">> \o N9a \o <<"_","n","_">> \o S150 \o Jpg
E3 == Pfx \o <<"2","2","2","_">> \o N9b \o <<"_","n">> \o Jpg
\* CDN-shaped URLs: three numeric runs before _n
IdA == <<"7","_">> \o N9a \o <<"_","5","_","n">>
IdB == <<"8","_">> \o N9a \o <<"_","6","_","n">>
A1 == Pfx \o S150 \o <<"/">> \o IdA \o Jpg
A2 == Pfx \o S320 \o <<"/">> \o IdA \o Jpg
A3 == Pfx \o S640 \o <<"/">> \o IdA \o Jpg
A4 == Pfx \o IdA \o Jpg
A4b == Alt \o IdA \o Jpg
B4 == Pfx \o IdB \o Jpg
\* matches the canonical-identifier pattern but not the grouping pattern
F4 == Pfx \o <<"1","_","2","_","3","_","n">> \o Jpg
\* match neither pattern
Z1 == Pfx \o <<"a">> \o Jpg
Z2 == Pfx \o <<"b">> \o Jpg
\* an image of another host
Other == <<"o",".","c","o","m","/">> \o IdB \o Jpg

DedupeUrls == {A1, A2, A3, A4, A4b, B4, E1}
GroupUrls == {E1, E2, E3, A3, A4, B4, F4, Z1, Z2}
PageSrcs == {A1, A3, A4, Z1, Other}

\* ------------------------------------------------------ string functions
\* `sub in s'
Contains(s, sub) ==
    \E k \in 1..(Len(s) - Len(sub) + 1) : SubSeq(s, k, k + Len(sub) - 1) = sub

\* end (exclusive) of the maximal digit run of s starting at k
RECURSIVE RunEnd(_, _)
RunEnd(s, k) == IF k <= Len(s) /\ IsDigit(s[k]) THEN RunEnd(s, k + 1) ELSE k

NoMatch == <<>>

\* /(\d+)_(\d{9}) matched with the "/" at position p.  \d+ is followed by
\* the literal "_", so it covers exactly the maximal digit run.
GroupMatchAt(s, p) ==
    /\ s[p] = "/"
    /\ LET e1 == RunEnd(s, p + 1) IN
         /\ e1 > p + 1
         /\ e1 + PostIdLen <= Len(s)
         /\ s[e1] = "_"
         /\ \A k \in (e1 + 1)..(e1 + PostIdLen) : IsDigit(s[k])

\* the scan of re.search from position p on: group(2) of the leftmost match
RECURSIVE GroupSearch(_, _)
GroupSearch(s, p) ==
    IF p > Len(s) THEN NoMatch
    ELSE IF GroupMatchAt(s, p)
         THEN LET e1 == RunEnd(s, p + 1) IN SubSeq(s, e1 + 1, e1 + PostIdLen)
         ELSE GroupSearch(s, p + 1)

\* re.search(r'/(\d+)_(\d{9})', url).group(2), NoMatch for None
PostIdOf(url) == GroupSearch(url, 1)

\* position of the final "n" of /(\d+_\d+_\d+_n) matched with the "/" at p,
\* 0 when there is no match at p
ImgMatchEnd(s, p) ==
    IF s[p] # "/" THEN 0
    ELSE LET e1 == RunEnd(s, p + 1)
             e2 == RunEnd(s, e1 + 1)
             e3 == RunEnd(s, e2 + 1)
         IN IF /\ e1 > p + 1 /\ e1 <= Len(s) /\ s[e1] = "_"
               /\ e2 > e1 + 1 /\ e2 <= Len(s) /\ s[e2] = "_"
               /\ e3 > e2 + 1 /\ e3 + 1 <= Len(s) /\ s[e3] = "_"
               /\ s[e3 + 1] = "n"
            THEN e3 + 1 ELSE 0

\* the scan of re.search from position p on: group(1) of the leftmost match
RECURSIVE ImgSearch(_, _)
ImgSearch(s, p) ==
    IF p > Len(s) THEN NoMatch
    ELSE LET e == ImgMatchEnd(s, p) IN
         IF e > 0 THEN SubSeq(s, p + 1, e) ELSE ImgSearch(s, p + 1)

\* re.search(r'/(\d+_\d+_\d+_n)', url).group(1), NoMatch for None
ImgId(url) == ImgSearch(url, 1)

\* the size priority of a URL
Priority(url) ==
    IF Contains(url, S150) THEN 1
    ELSE IF Contains(url, S320) THEN 2
    ELSE IF Contains(url, S640) THEN 3
    ELSE 4

\* ------------------------------------------------------------- dict model
\* a Python dict: entries in insertion order, a store to an existing key
\* keeps the key's position
HasKey(d, k) == \E j \in 1..Len(d) : d[j].key = k

Get(d, k) == d[CHOOSE j \in 1..Len(d) : d[j].key = k].val

Put(d, k, v) ==
    IF HasKey(d, k)
    THEN [j \in 1..Len(d) |-> IF d[j].key = k THEN [key |-> k, val |-> v] ELSE d[j]]
    ELSE Append(d, [key |-> k, val |-> v])

\* ----------------------------------------------------------- dedupe_sizes
ShouldStore_ge(seen_ids, img_id, priority) ==
    ~HasKey(seen_ids, img_id) \/ priority >= Get(seen_ids, img_id)[2]

ShouldStore_lt(seen_ids, img_id, priority) ==
    ~HasKey(seen_ids, img_id) \/ priority < Get(seen_ids, img_id)[2]

\* img_id not in seen_ids or priority > seen_ids[img_id][1]
ShouldStore(seen_ids, img_id, priority) ==
    ~HasKey(seen_ids, img_id) \/ priority > Get(seen_ids, img_id)[2]

FallbackKey_const(url) == <<"?">>

\* the key of a URL without canonical identifier: the URL itself
FallbackKey(url) == url

\* one iteration of the loop over urls
DedupeStep(seen_ids, url) ==
    LET img_id == ImgId(url) IN
    IF img_id # NoMatch
    THEN LET priority == Priority(url) IN
         IF ShouldStore(seen_ids, img_id, priority)
         THEN Put(seen_ids, img_id, <<url, priority>>)
         ELSE seen_ids
    ELSE Put(seen_ids, FallbackKey(url), <<url, 0>>)

RECURSIVE DedupeLoop(_, _)
DedupeLoop(list, seen_ids) ==
    IF list = <<>> THEN seen_ids
    ELSE DedupeLoop(Tail(list), DedupeStep(seen_ids, Head(list)))

SeenUrls(seen_ids) == [j \in 1..Len(seen_ids) |-> seen_ids[j].val[1]]

dedupe_sizes_skip(list) ==
    SeenUrls(DedupeLoop(IF list = <<>> THEN list ELSE Tail(list), <<>>))

dedupe_sizes(list) == SeenUrls(DedupeLoop(list, <<>>))

\* ----------------------------------------------------------- group_images
\* str(n) for n >= 0
RECURSIVE Str(_)
Str(n) ==
    LET d == <<"0", "1", "2", "3", "4", "5", "6", "7", "8", "9">>[(n % 10) + 1] IN
    IF n < 10 THEN <<d>> ELSE Append(Str(n \div 10), d)

SingleKey_zero(n) == <<"s","i","n","g","l","e","_">> \o Str(0)

\* f"single_{len(groups)}"
SingleKey(n) == <<"s","i","n","g","l","e","_">> \o Str(n)

GroupStep_overwrite(grps, url) ==
    LET post_id == PostIdOf(url) IN
    IF post_id # NoMatch
    THEN Put(grps, post_id, <<url>>)
    ELSE Put(grps, SingleKey(Len(grps)), <<url>>)

\* one iteration of the grouping loop
GroupStep(grps, url) ==
    LET post_id == PostIdOf(url) IN
    IF post_id # NoMatch
    THEN IF ~HasKey(grps, post_id)
         THEN Put(grps, post_id, <<url>>)
         ELSE Put(grps, post_id, Append(Get(grps, post_id), url))
    ELSE Put(grps, SingleKey(Len(grps)), <<url>>)

RECURSIVE GroupLoop(_, _)
GroupLoop(list, grps) ==
    IF list = <<>> THEN grps
    ELSE GroupLoop(Tail(list), GroupStep(grps, Head(list)))

\* the second loop: dedupe each group, keep the non-empty results
RECURSIVE PostsLoop(_, _)
PostsLoop(grps, acc) ==
    IF grps = <<>> THEN acc
    ELSE LET unique_images == dedupe_sizes(Head(grps).val) IN
         PostsLoop(Tail(grps),
                   IF unique_images # <<>> THEN Append(acc, unique_images) ELSE acc)

group_images(list) == PostsLoop(GroupLoop(list, <<>>), <<>>)

\* ------------------------------------------------------------ input sets
Lists(S, n) == UNION {[1..m -> S] : m \in 0..n}

Injective(list) ==
    \A a, b \in 1..Len(list) : list[a] = list[b] => a = b

\* list(s) of a set s: its elements in some order
Orders(S) == {l \in [1..Cardinality(S) -> S] : Injective(l)}

Range(list) == {list[k] : k \in 1..Len(list)}

\* ------------------------------------------------------------- the state
NoFile == <<>>
PriorFile == <<[scraped_at |-> "before", total_images |-> 0,
                total_posts |-> 0, posts |-> <<>>]>>

collectorVars == <<max_scrolls, i, all_images, last_count, no_new_count,
                   session, exc, file, prior_file, result, sizes, scrolls, broke>>
grouperVars == <<images, idx, groups, posts>>
dedupeVars == <<urls, out, out2>>

CollectorIdle ==
    /\ max_scrolls = 0 /\ i = 0 /\ all_images = {} /\ last_count = 0
    /\ no_new_count = 0 /\ session = "none" /\ exc = FALSE
    /\ file = NoFile /\ prior_file = NoFile /\ result = <<>>
    /\ sizes = <<>> /\ scrolls = 0 /\ broke = FALSE

GrouperIdle == images = <<>> /\ idx = 1 /\ groups = <<>> /\ posts = <<>>

DedupeIdle == urls = <<>> /\ out = <<>> /\ out2 = <<>>

\* ---------------------------------------------- dedupe_sizes, applied twice
InitDedupe ==
    /\ pc = "d_start"
    /\ urls \in Lists(DedupeUrls, MaxLen)
    /\ out = <<>> /\ out2 = <<>>
    /\ CollectorIdle /\ GrouperIdle

DedupeCall ==
    /\ pc = "d_start"
    /\ out' = dedupe_sizes(urls)
    /\ pc' = "d_once"
    /\ UNCHANGED <<urls, out2, collectorVars, grouperVars>>

DedupeAgain ==
    /\ pc = "d_once"
    /\ out2' = dedupe_sizes(out)
    /\ pc' = "d_twice"
    /\ UNCHANGED <<urls, out, collectorVars, grouperVars>>

NextDedupe == DedupeCall \/ DedupeAgain

SpecDedupe == InitDedupe /\ [][NextDedupe]_vars

\* ------------------------------------------- group_images, loop by loop
InitGroup ==
    /\ pc = "g_loop"
    /\ images \in {l \in Lists(GroupUrls, MaxImages) : Injective(l)}
    /\ idx = 1 /\ groups = <<>> /\ posts = <<>>
    /\ CollectorIdle /\ DedupeIdle

\* for url in images: one iteration
GroupIter ==
    /\ pc = "g_loop"
    /\ idx <= Len(images)
    /\ groups' = GroupStep(groups, images[idx])
    /\ idx' = idx + 1
    /\ UNCHANGED <<pc, images, posts, collectorVars, dedupeVars>>

\* for post_id, urls in groups.items(): ...; return posts
GroupPosts ==
    /\ pc = "g_loop"
    /\ idx > Len(images)
    /\ posts' = PostsLoop(groups, <<>>)
    /\ pc' = "g_done"
    /\ UNCHANGED <<images, idx, groups, collectorVars, dedupeVars>>

NextGroup == GroupIter \/ GroupPosts

SpecGroup == InitGroup /\ [][NextGroup]_vars

\* --------------------------------------------------------- scrape_threads
\* the filter of the extraction script over the img.src values of the page
ExtractFilter(srcs) ==
    {src \in srcs : /\ Contains(src, Cdn)
                    /\ ~Contains(src, S150)
                    /\ ~Contains(src, S64)
                    /\ ~Contains(src, S32)}

InRange_incl(k, n) == k <= n

\* for i in range(max_scrolls): another iteration is due
InRange(k, n) == k < n

NextNoNew_keep(count, current_count, last) ==
    IF current_count = last THEN count + 1 ELSE count

\* the stagnation counter after the comparison with last_count
NextNoNew(count, current_count, last) ==
    IF current_count = last THEN count + 1 ELSE 0

InitScrape ==
    /\ pc = "launch"
    /\ max_scrolls \in 0..MaxBudget
    /\ prior_file \in {NoFile, PriorFile}
    /\ file = prior_file
    /\ i = 0 /\ all_images = {} /\ last_count = 0 /\ no_new_count = 0
    /\ session = "none" /\ exc = FALSE /\ result = <<>>
    /\ sizes = <<>> /\ scrolls = 0 /\ broke = FALSE
    /\ GrouperIdle /\ DedupeIdle

\* async with async_playwright() as p: launch, new_page
Launch ==
    /\ pc = "launch"
    /\ session' = "open"
    /\ pc' = "goto"
    /\ UNCHANGED <<max_scrolls, i, all_images, last_count, no_new_count, exc,
                   file, prior_file, result, sizes, scrolls, broke,
                   grouperVars, dedupeVars>>

\* page.goto, sleep, the three initialisations
Goto ==
    /\ pc = "goto"
    /\ all_images' = {} /\ last_count' = 0 /\ no_new_count' = 0 /\ i' = 0
    /\ pc' = "loop"
    /\ UNCHANGED <<max_scrolls, session, exc, file, prior_file, result, sizes,
                   scrolls, broke, grouperVars, dedupeVars>>

\* an awaited browser call raises: nothing catches it inside the with block
Raised ==
    /\ exc' = TRUE
    /\ pc' = "exit_scope"
    /\ UNCHANGED <<max_scrolls, i, all_images, last_count, no_new_count,
                   session, file, prior_file, result, sizes, scrolls, broke,
                   grouperVars, dedupeVars>>

\* p.chromium.launch or browser.new_page raises
LaunchFail ==
    /\ pc = "launch"
    /\ Raised

\* page.goto raises
GotoFail ==
    /\ pc = "goto"
    /\ Raised

\* the extraction page.evaluate raises
ExtractFail ==
    /\ pc = "loop"
    /\ InRange(i, max_scrolls)
    /\ Raised

\* the scroll page.evaluate raises
ScrollFail ==
    /\ pc = "scroll"
    /\ Raised

\* one loop iteration up to the break or the update of last_count
Extract ==
    /\ pc = "loop"
    /\ InRange(i, max_scrolls)
    /\ \E srcs \in SUBSET PageSrcs :
         LET all == all_images \cup ExtractFilter(srcs)
             current_count == Cardinality(all)
             count == NextNoNew(no_new_count, current_count, last_count)
         IN /\ all_images' = all
            /\ sizes' = Append(sizes, current_count)
            /\ no_new_count' = count
            /\ IF current_count = last_count /\ count >= StagnationLimit
               THEN /\ broke' = TRUE
                    /\ pc' = "close"
                    /\ UNCHANGED last_count
               ELSE /\ last_count' = current_count
                    /\ pc' = "scroll"
                    /\ UNCHANGED broke
    /\ UNCHANGED <<max_scrolls, i, session, exc, file, prior_file, result,
                   scrolls, grouperVars, dedupeVars>>

\* window.scrollBy, sleep, next i
Scroll ==
    /\ pc = "scroll"
    /\ scrolls' = scrolls + 1
    /\ i' = i + 1
    /\ pc' = "loop"
    /\ UNCHANGED <<max_scrolls, all_images, last_count, no_new_count, session,
                   exc, file, prior_file, result, sizes, broke,
                   grouperVars, dedupeVars>>

\* range(max_scrolls) is exhausted
LoopExit ==
    /\ pc = "loop"
    /\ ~InRange(i, max_scrolls)
    /\ pc' = "close"
    /\ UNCHANGED <<collectorVars, grouperVars, dedupeVars>>

\* await browser.close()
Close ==
    /\ pc = "close"
    /\ session' = "closed"
    /\ pc' = "exit_scope"
    /\ UNCHANGED <<max_scrolls, i, all_images, last_count, no_new_count, exc,
                   file, prior_file, result, sizes, scrolls, broke,
                   grouperVars, dedupeVars>>

ScopeRelease_none(s) == s

\* leaving the async_playwright() block stops the driver and with it a
\* browser that is still running
ScopeRelease(s) == IF s = "open" THEN "closed" ELSE s

AfterScope_swallow(e) == "collected"

\* an exception leaves scrape_threads, otherwise line 73 is next
AfterScope(e) == IF e THEN "aborted" ELSE "collected"

\* the end of the with block, on the normal and on the raising path
ScopeExit ==
    /\ pc = "exit_scope"
    /\ session' = ScopeRelease(session)
    /\ pc' = AfterScope(exc)
    /\ UNCHANGED <<max_scrolls, i, all_images, last_count, no_new_count, exc,
                   file, prior_file, result, sizes, scrolls, broke,
                   grouperVars, dedupeVars>>

\* posts = group_images(list(all_images))
Group ==
    /\ pc = "collected"
    /\ \E order \in Orders(all_images) :
         /\ images' = order
         /\ groups' = GroupLoop(order, <<>>)
         /\ posts' = group_images(order)
         /\ idx' = Len(order) + 1
    /\ pc' = "grouped"
    /\ UNCHANGED <<collectorVars, dedupeVars>>

\* build result, write data/<username>.json, return result
Write ==
    /\ pc = "grouped"
    /\ result' = <<[scraped_at |-> "now",
                    total_images |-> Cardinality(all_images),
                    total_posts |-> Len(posts),
                    posts |-> posts]>>
    /\ file' = result'
    /\ pc' = "done"
    /\ UNCHANGED <<max_scrolls, i, all_images, last_count, no_new_count,
                   session, exc, prior_file, sizes, scrolls, broke,
                   grouperVars, dedupeVars>>

Next ==
    \/ Launch \/ LaunchFail \/ Goto \/ GotoFail
    \/ Extract \/ ExtractFail \/ Scroll \/ ScrollFail \/ LoopExit
    \/ Close \/ ScopeExit \/ Group \/ Write

Spec == InitScrape /\ [][Next]_vars

\* ================================================================ claims
\* ------------------------------------------------ dedupe_sizes (SpecDedupe)
Ids(list) == {ImgId(list[k]) : k \in 1..Len(list)} \ {NoMatch}

\* positions of list holding a URL of the identifier
PosOf(list, id) == {k \in 1..Len(list) : ImgId(list[k]) = id}

MaxPriority(list, id) ==
    LET ps == {Priority(list[k]) : k \in PosOf(list, id)} IN
    CHOOSE m \in ps : \A q \in ps : q <= m

\* positions of the URLs of the identifier that have its highest priority
TopPos(list, id) ==
    LET m == MaxPriority(list, id) IN
    {k \in PosOf(list, id) : Priority(list[k]) = m}

Min(S) == CHOOSE m \in S : \A k \in S : m <= k

Max(S) == CHOOSE m \in S : \A k \in S : m >= k

\* the URLs of the output that carry the identifier
Retained(id) == {out[k] : k \in PosOf(out, id)}

\* C1 as stated: when several URLs of one canonical identifier share its
\* highest priority, dedupe_sizes retains the one that comes last in the
\* input list.
C1_LaterRetained ==
    pc = "d_once" =>
        \A id \in Ids(urls) :
            LET top == TopPos(urls, id) IN
            Cardinality(top) >= 2 => Retained(id) = {urls[Max(top)]}

\* C1 amended: when several URLs of one canonical identifier share its
\* highest priority, dedupe_sizes retains the one that comes first in the
\* input list (the stored entry is replaced only by a strictly higher
\* priority).
C1_EarlierRetained ==
    pc = "d_once" =>
        \A id \in Ids(urls) :
            LET top == TopPos(urls, id) IN
            Cardinality(top) >= 2 => Retained(id) = {urls[Min(top)]}

C1_Witness ==
    /\ pc = "d_once"
    /\ \E id \in Ids(urls) :
         LET top == TopPos(urls, id) IN
         /\ Cardinality(top) >= 2
         /\ urls[Min(top)] # urls[Max(top)]
         /\ Retained(id) = {urls[Min(top)]}

\* C4: for every canonical identifier of the input list the output of
\* dedupe_sizes holds exactly one URL of that identifier, it is a URL of the
\* input, and its priority is the highest among the input URLs of that
\* identifier; of the four variants of one identifier the unmarked one stays.
C4_PriorityCorrect ==
    pc = "d_once" =>
        /\ \A id \in Ids(urls) :
             /\ Cardinality(PosOf(out, id)) = 1
             /\ \A k \in PosOf(out, id) :
                  /\ out[k] \in Range(urls)
                  /\ Priority(out[k]) = MaxPriority(urls, id)
        /\ (Range(urls) = {A1, A2, A3, A4} => out = <<A4>>)

C4_Witness ==
    /\ pc = "d_once"
    /\ Range(urls) = {A1, A2, A3, A4}
    /\ urls[1] = A4 /\ urls[4] = A1
    /\ out = <<A4>>

\* C8: the URLs of dedupe_sizes(dedupe_sizes(L)) are exactly the URLs of
\* dedupe_sizes(L).
C8_Idempotent ==
    pc = "d_twice" => Range(out2) = Range(out)

C8_Witness ==
    /\ pc = "d_twice"
    /\ Len(out) >= 2
    /\ Len(out) < Cardinality(Range(urls))
    /\ Range(out2) = Range(out)

\* -------------------------------------------------- group_images (SpecGroup)
\* the images handled so far by the grouping loop
Handled == {images[k] : k \in 1..(idx - 1)}

\* the places <<j, k>> of a URL in a sequence of URL lists
Places(lists, url) ==
    {jk \in UNION {{<<j, k>> : k \in 1..Len(lists[j])} : j \in 1..Len(lists)} :
        lists[jk[1]][jk[2]] = url}

GroupLists == [j \in 1..Len(groups) |-> groups[j].val]

PostSets == {Range(posts[j]) : j \in 1..Len(posts)}

ExampleInput == Len(images) = 3 /\ Range(images) = {E1, E2, E3}

\* C2 as stated: group_images of the three example URLs, in any order,
\* returns exactly two Posts, one holding only the 111 full-resolution URL
\* and one holding only the 222 URL.
C2_ThumbnailDropped ==
    (pc = "g_done" /\ ExampleInput) =>
        /\ Len(posts) = 2
        /\ PostSets = {{E1}, {E3}}
        /\ \A j \in 1..Len(posts) : Len(posts[j]) = 1

\* C2 amended: group_images of the three example URLs, in any order, returns
\* exactly two Posts, one holding both 111 URLs (neither has a canonical
\* identifier, so the s150x150 variant stays) and one holding only the 222
\* URL.
C2_ThumbnailKept ==
    (pc = "g_done" /\ ExampleInput) =>
        /\ Len(posts) = 2
        /\ PostSets = {{E1, E2}, {E3}}
        /\ \A j \in 1..Len(posts) : Len(posts[j]) = Cardinality(Range(posts[j]))

C2_Witness ==
    /\ pc = "g_done"
    /\ images = <<E2, E3, E1>>
    /\ posts = <<<<E2, E1>>, <<E3>>>>

\* C3: at every point of the grouping loop the groups partition the images
\* handled so far: each of them is at exactly one place of exactly one
\* group, the groups hold nothing else, images with the same PostID share a
\* group, and an image without PostID is alone in its group.
C3_Partition ==
    /\ \A url \in Handled : Cardinality(Places(GroupLists, url)) = 1
    /\ \A j \in 1..Len(groups) :
         /\ groups[j].val # <<>>
         /\ Range(groups[j].val) \subseteq Handled
         /\ \A u, v \in Range(groups[j].val) :
              PostIdOf(u) = NoMatch => u = v
    /\ \A u, v \in Handled :
         (PostIdOf(u) # NoMatch /\ PostIdOf(u) = PostIdOf(v)) =>
             \E j \in 1..Len(groups) : {u, v} \subseteq Range(groups[j].val)
    /\ \A a, b \in 1..Len(groups) : groups[a].key = groups[b].key => a = b

C3_Witness ==
    /\ idx > Len(images)
    /\ Len(images) = 3
    /\ PostIdOf(images[1]) = NoMatch
    /\ PostIdOf(images[2]) # NoMatch
    /\ PostIdOf(images[3]) = NoMatch
    /\ Len(groups) = 3
    /\ groups[3].key = SingleKey(2)

\* C5: every input URL without canonical identifier is at exactly one place
\* of the Posts returned by group_images.
C5_FallbackKept ==
    pc = "g_done" =>
        \A url \in Range(images) :
            ImgId(url) = NoMatch => Cardinality(Places(posts, url)) = 1

C5_Witness ==
    /\ pc = "g_done"
    /\ \E u, v, w \in Range(images) :
         /\ u # v
         /\ ImgId(u) = NoMatch /\ ImgId(v) = NoMatch /\ ImgId(w) = NoMatch
         /\ PostIdOf(u) # NoMatch /\ PostIdOf(u) = PostIdOf(v)
         /\ PostIdOf(w) = NoMatch
         /\ \A x \in {u, v, w} : Cardinality(Places(posts, x)) = 1

\* ------------------------------------------------- scrape_threads (Spec)
\* sizes[k] is the size of the URL set after the k-th extraction
SizeBefore(k) == IF k = 1 THEN 0 ELSE sizes[k - 1]

Flat(k) == sizes[k] = SizeBefore(k)

\* the number of most recent consecutive iterations without growth
TrailingFlat ==
    Cardinality({k \in 1..Len(sizes) : \A m \in k..Len(sizes) : Flat(m)})

\* the last iteration that grew the set, 0 when none did
LastGrow == Max({0} \cup {k \in 1..Len(sizes) : ~Flat(k)})

AfterLoop == pc \in {"close", "collected", "grouped", "done"} \/ (pc = "exit_scope" /\ ~exc)

Ended == pc \in {"aborted", "collected", "grouped", "done"}

\* C6: the stagnation counter is the number of most recent consecutive
\* iterations that did not grow the URL set (0 after a growing one); the
\* iteration in which it reaches 5 leaves the loop at once, without its
\* scroll and with no later extraction, five iterations after the last
\* growing one, whatever budget remains.
C6_Stagnation ==
    /\ no_new_count = TrailingFlat
    /\ (no_new_count = 5 => (broke /\ pc \notin {"loop", "scroll"}))
    /\ broke => /\ no_new_count = 5
                /\ Len(sizes) = LastGrow + 5
                /\ scrolls = Len(sizes) - 1
                /\ i = Len(sizes) - 1

C6_Witness ==
    /\ pc = "done"
    /\ broke
    /\ LastGrow >= 1
    /\ Len(sizes) = LastGrow + 5
    /\ Len(sizes) < max_scrolls

\* C7: the loop never runs more than max_scrolls extraction iterations; when
\* it is left without the stagnation break it has run exactly max_scrolls of
\* them; both ways of leaving it continue at browser.close() with no
\* exception.
C7_Budget ==
    /\ Len(sizes) <= max_scrolls
    /\ (AfterLoop /\ ~broke) => (Len(sizes) = max_scrolls /\ no_new_count < 5)
    /\ AfterLoop => ~exc

C7_Witness ==
    /\ pc = "done"
    /\ ~broke
    /\ max_scrolls >= 6
    /\ Len(sizes) = max_scrolls
    /\ scrolls = max_scrolls

C10_NoPartialOutput ==
    /\ exc => (pc \in {"exit_scope", "aborted"} /\ file = prior_file /\ result = <<>>)
    /\ file # prior_file =>
         /\ pc = "done" /\ ~exc
         /\ file = result
         /\ result[1].posts = group_images(images)
         /\ Range(images) = all_images

C10_Witness ==
    /\ pc = "aborted"
    /\ Len(sizes) >= 2
    /\ all_images # {}
    /\ prior_file = PriorFile
    /\ file = PriorFile
====
